---- MODULE Spec2Model ----
(***************************************************************************)
(* A model of cartridge (src/src/lib.rs): the configuration-driven        *)
(* variable resolver, the path anonymizer and the backup / restore        *)
(* orchestrator over an abstract file system.                             *)
(*                                                                         *)
(* Strings are sequences of characters; a character is a one-token TLA+   *)
(* string ("$", "{", "}", "/") or an atomic run of letters ("home",       *)
(* "s1", ".sav").  Paths are parsed from strings as std::path does.       *)
(***************************************************************************)
EXTENDS Integers, Sequences, FiniteSets, TLC

VARIABLES config, home_dir, variables, loaded, fs, result, changes, input

vars == <<config, home_dir, variables, loaded, fs, result, changes, input>>

\* ------------------------------------------------------------------ bounds

\* The longest run of "$" characters in front of an expansion input.
MaxDollars == 11

\* The number of changes other processes make to the host's save files.
MaxHostChanges == 2

\* The number of components of a generated path.
MaxPathLen == 3

\* The number of [[var]] entries of a generated configuration document.
MaxVars == 2

\* ------------------------------------------------------------- strings

\* const MAX_ITERATIONS: usize = 10;
MAX_ITERATIONS == 10

Str(c) == <<c>>

RECURSIVE Dollars(_)
Dollars(k) == IF k = 0 THEN <<>> ELSE <<"$">> \o Dollars(k - 1)

\* str::contains("${")
ContainsRef(s) == \E i \in 1..(Len(s) - 1) : s[i] = "$" /\ s[i + 1] = "{"

\* The inner `while let Some(ch) = chars.next()` of a reference: the index of
\* the first "}" at or after position i, or Len(s) + 1 when the string ends
\* first.
RECURSIVE NameEnd(_, _)
NameEnd(s, i) ==
    IF i > Len(s) THEN Len(s) + 1
    ELSE IF s[i] = "}" THEN i
    ELSE NameEnd(s, i + 1)

\* One pass of expand_variables over `s` from position i: new_result so far
\* is `acc`.  Returns the pass's outcome.
RECURSIVE ScanPass(_, _, _, _, _)
ScanPass(s, i, acc, changed, V) ==
    IF i > Len(s) THEN [ok |-> TRUE, out |-> acc, changed |-> changed, name |-> <<>>]
    ELSE IF s[i] = "$" /\ i + 1 <= Len(s) /\ s[i + 1] = "{" THEN
        LET j == NameEnd(s, i + 2)
            var_name == SubSeq(s, i + 2, j - 1)
        IN  IF var_name \in DOMAIN V
            THEN ScanPass(s, j + 1, acc \o V[var_name], TRUE, V)
            ELSE [ok |-> FALSE, out |-> acc, changed |-> changed, name |-> var_name]
    ELSE ScanPass(s, i + 1, Append(acc, s[i]), changed, V)

ExpOk(s, n) == [ok |-> TRUE, err |-> "none", name |-> <<>>, out |-> s, passes |-> n]
ExpErr(kind, name, n) == [ok |-> FALSE, err |-> kind, name |-> name, out |-> <<>>, passes |-> n]

\* The check after the loop of expand_variables.
ExpandFinish(res, iterations) ==
    IF iterations >= MAX_ITERATIONS
    THEN ExpErr("CircularVariableReference", <<>>, iterations)
    ELSE ExpOk(res, iterations)

\* The `while result.contains("${") && iterations < MAX_ITERATIONS` loop.
RECURSIVE ExpandLoop(_, _, _)
ExpandLoop(res, iterations, V) ==
    IF ContainsRef(res) /\ iterations < MAX_ITERATIONS THEN
        LET p == ScanPass(res, 1, <<>>, FALSE, V)
        IN  IF ~p.ok THEN ExpErr("UndefinedVariable", p.name, iterations + 1)
            ELSE IF ~p.changed THEN ExpandFinish(p.out, iterations + 1)
            ELSE ExpandLoop(p.out, iterations + 1, V)
    ELSE ExpandFinish(res, iterations)

expand_variables(value, V) == ExpandLoop(value, 0, V)

\* ------------------------------------------------- config load (new)

None == [some |-> FALSE, path |-> <<>>]
Some(p) == [some |-> TRUE, path |-> p]

\* dirs::config_dir() on a POSIX host without XDG_CONFIG_HOME: $HOME/.config.
config_dir(home) == IF home.some THEN Some(home.path \o <<"/", ".config">>) ELSE None

\* add_system_variables (cfg(unix)): the scope after the two inserts.
add_system_variables(home) ==
    LET V1 == IF home.some THEN (<<"home">> :> home.path) ELSE <<>>
        cd == config_dir(home)
    IN  IF cd.some THEN (<<"config">> :> cd.path) @@ V1 ELSE V1

\* The first `for var in &self.config.variables` loop: the index of the first
\* variable with a reserved name, 0 when there is none.
RECURSIVE ReservedFrom(_, _)
ReservedFrom(vs, i) ==
    IF i > Len(vs) THEN 0
    ELSE IF vs[i].name = <<"home">> \/ vs[i].name = <<"config">> THEN i
    ELSE ReservedFrom(vs, i + 1)

LoadOk(V) == [ok |-> TRUE, err |-> "none", name |-> <<>>, at |-> 0, passes |-> 0, variables |-> V]
LoadErr(kind, name, at, n, V) ==
    [ok |-> FALSE, err |-> kind, name |-> name, at |-> at, passes |-> n, variables |-> V]

\* As ResolveFrom, with the raw value of every variable of the document put in
\* scope before the first expansion.
RECURSIVE ResolveEager(_, _, _)
ResolveEager(vs, i, V) ==
    IF i > Len(vs) THEN LoadOk(V)
    ELSE LET raw == [n \in {vs[k].name : k \in i..Len(vs)} |->
                        vs[CHOOSE k \in i..Len(vs) : vs[k].name = n].value]
             r == expand_variables(vs[i].value, V @@ raw)
         IN  IF ~r.ok THEN LoadErr(r.err, r.name, i, r.passes, V)
             ELSE ResolveEager(vs, i + 1, (vs[i].name :> r.out) @@ V)

\* The second loop: expand each value against the scope so far, then insert.
RECURSIVE ResolveFrom(_, _, _)
ResolveFrom(vs, i, V) ==
    IF i > Len(vs) THEN LoadOk(V)
    ELSE LET r == expand_variables(vs[i].value, V)
         IN  IF ~r.ok THEN LoadErr(r.err, r.name, i, r.passes, V)
             ELSE ResolveFrom(vs, i + 1, (vs[i].name :> r.out) @@ V)

\* As ReservedCheck, looking at the first variable only.
ReservedCheckFirst(vs) ==
    IF vs # <<>> /\ (vs[1].name = <<"home">> \/ vs[1].name = <<"config">>) THEN 1 ELSE 0

ReservedCheck(vs) == ReservedFrom(vs, 1)

resolve_variables(vs, home) ==
    LET sys == add_system_variables(home)
        r == ReservedCheck(vs)
    IN  IF r # 0 THEN LoadErr("ReservedVariableName", vs[r].name, r, 0, sys)
        ELSE ResolveFrom(vs, 1, sys)

\* ---------------------------------------------------------------- paths

\* std::path components of a string: "/" separates, empty components and "."
\* are dropped, a leading "/" is the root.  A component is a string.
RECURSIVE SplitFrom(_, _, _)
SplitFrom(s, i, cur) ==
    LET done == IF cur = <<>> \/ cur = <<".">> THEN <<>> ELSE <<cur>>
    IN  IF i > Len(s) THEN done
        ELSE IF s[i] = "/" THEN done \o SplitFrom(s, i + 1, <<>>)
        ELSE SplitFrom(s, i + 1, Append(cur, s[i]))

\* Path::new(&s)
PathOf(s) == [abs |-> s # <<>> /\ s[1] = "/", comps |-> SplitFrom(s, 1, <<>>)]

\* std::path::Component::Normal (as opposed to ParentDir)
IsNormal(c) == c # <<"..">>

NormalComps(cs) == SelectSeq(cs, IsNormal)

IsPrefix(a, b) == Len(a) <= Len(b) /\ SubSeq(b, 1, Len(a)) = a

\* Path::strip_prefix: component-wise
StripPrefix(p, base) ==
    IF p.abs = base.abs /\ IsPrefix(base.comps, p.comps)
    THEN [ok |-> TRUE, rel |-> SubSeq(p.comps, Len(base.comps) + 1, Len(p.comps))]
    ELSE [ok |-> FALSE, rel |-> <<>>]

\* PathBuf::join / push of a path onto an absolute directory
Join(dir, p) == IF p.abs THEN p.comps ELSE dir \o p.comps

RelPath(cs) == [abs |-> FALSE, comps |-> cs]

\* As anonymize_unix_path, with the home directory's own components kept
\* after the sentinel.
AnonymizeKeepsHome(path, home) ==
    LET hp == PathOf(home.path)
        sp == StripPrefix(path, hp)
    IN  IF home.some /\ sp.ok THEN RelPath(<<Str("user_home")>> \o path.comps)
        ELSE IF path.abs THEN RelPath(NormalComps(path.comps))
        ELSE path

anonymize_unix_path(path, home) ==
    LET hp == PathOf(home.path)
        sp == StripPrefix(path, hp)
    IN  IF home.some /\ sp.ok THEN RelPath(<<Str("user_home")>> \o sp.rel)
        ELSE IF path.abs THEN RelPath(NormalComps(path.comps))
        ELSE path

\* create_backup_path (cfg(unix)): game_backup_dir is a sequence of components.
create_backup_path(source_path, game_backup_dir, home) ==
    game_backup_dir \o NormalComps(anonymize_unix_path(source_path, home).comps)

\* ---------------------------------------------------------- file system
\* fs maps every existing absolute path (a sequence of components) to "dir"
\* or, for a regular file, to its contents.

Exists(f, p) == p \in DOMAIN f
IsDir(f, p) == p \in DOMAIN f /\ f[p] = "dir"
IsFile(f, p) == p \in DOMAIN f /\ f[p] # "dir"

Prefixes(p) == {SubSeq(p, 1, k) : k \in 0..Len(p)}
Parent(p) == SubSeq(p, 1, Len(p) - 1)
Last(p) == p[Len(p)]

FsOk(f) == [ok |-> TRUE, fs |-> f]
FsErr(f) == [ok |-> FALSE, fs |-> f]

\* std::fs::create_dir_all: fails when a component exists and is no directory.
create_dir_all(f, p) ==
    IF \E q \in Prefixes(p) : IsFile(f, q) THEN FsErr(f)
    ELSE FsOk([q \in DOMAIN f \cup Prefixes(p) |-> IF q \in DOMAIN f THEN f[q] ELSE "dir"])

\* std::fs::copy(from, to): `from` is a regular file, the parent of `to` is a
\* directory and `to` is no directory; `to` is created or overwritten.
fs_copy(f, from, to) ==
    IF ~IsFile(f, from) \/ to = <<>> \/ ~IsDir(f, Parent(to)) \/ IsDir(f, to) THEN FsErr(f)
    ELSE FsOk([q \in DOMAIN f \cup {to} |-> IF q = to THEN f[from] ELSE f[q]])

RECURSIVE SetToSeq(_)
SetToSeq(S) == IF S = {} THEN <<>> ELSE LET x == CHOOSE x \in S : TRUE IN <<x>> \o SetToSeq(S \ {x})

RECURSIVE Reverse(_)
Reverse(q) == IF q = <<>> THEN <<>> ELSE Append(Reverse(Tail(q)), Head(q))

\* The order in which a directory listing or a glob yields its entries: one
\* enumeration of the set or its reverse, as `rev` says.
InOrder(S, rev) == IF rev THEN Reverse(SetToSeq(S)) ELSE SetToSeq(S)

\* std::fs::read_dir: the names of the entries of directory d.
ReadDir(f, d) == {Last(q) : q \in {r \in DOMAIN f : Len(r) = Len(d) + 1 /\ IsPrefix(d, r)}}

RECURSIVE copy_all_files(_, _, _, _)
RECURSIVE CopyEntries(_, _, _, _, _)

\* The body of `for entry in entries` in copy_all_files.
CopyEntries(f, source, dest, entries, rev) ==
    IF entries = <<>> THEN FsOk(f)
    ELSE LET path == Append(source, Head(entries))
             dest_path == Append(dest, Head(entries))
             step == IF IsDir(f, path)
                     THEN LET c == create_dir_all(f, dest_path)
                          IN  IF c.ok THEN copy_all_files(c.fs, path, dest_path, rev) ELSE c
                     ELSE fs_copy(f, path, dest_path)
         IN  IF step.ok THEN CopyEntries(step.fs, source, dest, Tail(entries), rev) ELSE step

copy_all_files(f, source, dest, rev) ==
    IF IsFile(f, source) THEN
        IF source = <<>> \/ ~IsNormal(Last(source)) THEN FsErr(f)
        ELSE fs_copy(f, source, Append(dest, Last(source)))
    ELSE IF ~IsDir(f, source) THEN FsErr(f)
    ELSE CopyEntries(f, source, dest, InOrder(ReadDir(f, source), rev), rev)

\* glob: "*" in a pattern component matches any run of characters of one
\* path component; every other character matches itself.
RECURSIVE GlobMatch(_, _)
GlobMatch(pat, name) ==
    IF pat = <<>> THEN name = <<>>
    ELSE IF Head(pat) = "*"
         THEN GlobMatch(Tail(pat), name) \/ (name # <<>> /\ GlobMatch(pat, Tail(name)))
         ELSE name # <<>> /\ Head(name) = Head(pat) /\ GlobMatch(Tail(pat), Tail(name))

\* glob::glob(source_dir.join(pattern)): the existing paths below source_dir
\* whose components match the pattern's components one by one.
GlobPaths(f, source_dir, pattern) ==
    LET pp == PathOf(pattern)
        base == IF pp.abs THEN <<>> ELSE source_dir
        n == Len(pp.comps)
    IN  {q \in DOMAIN f :
            /\ Len(q) = Len(base) + n
            /\ IsPrefix(base, q)
            /\ \A k \in 1..n : GlobMatch(pp.comps[k], q[Len(base) + k])}

\* The body of `for path_result in paths` in copy_files_by_pattern.
RECURSIVE CopyMatches(_, _, _)
CopyMatches(f, dest_dir, paths) ==
    IF paths = <<>> THEN FsOk(f)
    ELSE LET path == Head(paths)
             step == IF IsFile(f, path) THEN fs_copy(f, path, Append(dest_dir, Last(path)))
                     ELSE FsOk(f)
         IN  IF step.ok THEN CopyMatches(step.fs, dest_dir, Tail(paths)) ELSE step

copy_files_by_pattern(f, source_dir, dest_dir, pattern, rev) ==
    CopyMatches(f, dest_dir, InOrder(GlobPaths(f, source_dir, pattern) \ {<<>>}, rev))

\* `for pattern in &save_location.files` in backup_save_location.
RECURSIVE CopyPatterns(_, _, _, _, _)
CopyPatterns(f, source_dir, dest_dir, files, rev) ==
    IF files = <<>> THEN FsOk(f)
    ELSE LET step == copy_files_by_pattern(f, source_dir, dest_dir, Head(files), rev)
         IN  IF step.ok THEN CopyPatterns(step.fs, source_dir, dest_dir, Tail(files), rev)
             ELSE step

\* ---------------------------------------------------------- orchestrator

\* The directory of the configuration file; backup_root is its "backup" child.
ConfigDir == <<Str("c")>>
backup_root == Append(ConfigDir, Str("backup"))

\* The working directory of the process, against which the operating system
\* resolves a relative path.
Cwd == <<Str("w")>>
AbsOf(p) == Join(Cwd, p)

OpOk(f) == [ok |-> TRUE, err |-> "none", fs |-> f, at |-> 0]
OpErr(kind, f, at) == [ok |-> FALSE, err |-> kind, fs |-> f, at |-> at]

backup_save_location(f, V, home, save_location, game_backup_dir, rev) ==
    LET e == expand_variables(save_location.path, V)
        source_path == PathOf(e.out)
        src == AbsOf(source_path)
        backup_subdir == create_backup_path(source_path, game_backup_dir, home)
        c == create_dir_all(f, backup_subdir)
        r == IF save_location.files = <<>>
             THEN copy_all_files(c.fs, src, backup_subdir, rev)
             ELSE CopyPatterns(c.fs, src, backup_subdir, save_location.files, rev)
    IN  IF ~e.ok THEN OpErr(e.err, f, 0)
        ELSE IF ~Exists(f, src) THEN OpErr("SourceMissing", f, 0)
        ELSE IF ~c.ok THEN OpErr("FilesystemError", f, 0)
        ELSE IF ~r.ok THEN OpErr("FilesystemError", r.fs, 0)
        ELSE OpOk(r.fs)

\* As restore_save_location, creating the destination directory before the
\* backup subdirectory is looked for.
RestoreCreatesFirst(f, V, home, save_location, game_backup_dir, rev) ==
    LET e == expand_variables(save_location.path, V)
        dest_path == PathOf(e.out)
        dst == AbsOf(dest_path)
        backup_subdir == create_backup_path(dest_path, game_backup_dir, home)
        c == create_dir_all(f, dst)
        r == copy_all_files(c.fs, backup_subdir, dst, rev)
    IN  IF ~e.ok THEN OpErr(e.err, f, 0)
        ELSE IF ~c.ok THEN OpErr("FilesystemError", f, 0)
        ELSE IF ~Exists(f, backup_subdir) THEN OpErr("BackupSubdirMissing", c.fs, 0)
        ELSE IF ~r.ok THEN OpErr("FilesystemError", r.fs, 0)
        ELSE OpOk(r.fs)

restore_save_location(f, V, home, save_location, game_backup_dir, rev) ==
    LET e == expand_variables(save_location.path, V)
        dest_path == PathOf(e.out)
        dst == AbsOf(dest_path)
        backup_subdir == create_backup_path(dest_path, game_backup_dir, home)
        c == create_dir_all(f, dst)
        r == copy_all_files(c.fs, backup_subdir, dst, rev)
    IN  IF ~e.ok THEN OpErr(e.err, f, 0)
        ELSE IF ~Exists(f, backup_subdir) THEN OpErr("BackupSubdirMissing", f, 0)
        ELSE IF ~c.ok THEN OpErr("FilesystemError", f, 0)
        ELSE IF ~r.ok THEN OpErr("FilesystemError", r.fs, 0)
        ELSE OpOk(r.fs)

\* As BackupSaves, going on with the save locations after one that failed and
\* returning the first error at the end.
RECURSIVE BackupSavesGoOn(_, _, _, _, _, _, _)
BackupSavesGoOn(f, V, home, saves, i, game_backup_dir, rev) ==
    IF i > Len(saves) THEN OpOk(f)
    ELSE LET r == backup_save_location(f, V, home, saves[i], game_backup_dir, rev)
             rest == BackupSavesGoOn(r.fs, V, home, saves, i + 1, game_backup_dir, rev)
         IN  IF r.ok THEN rest ELSE OpErr(r.err, rest.fs, i)

\* `for (i, save_location) in game.saves.iter().enumerate()` of backup_game:
\* the `?` returns at the first save location that fails.
RECURSIVE BackupSaves(_, _, _, _, _, _, _)
BackupSaves(f, V, home, saves, i, game_backup_dir, rev) ==
    IF i > Len(saves) THEN OpOk(f)
    ELSE LET r == backup_save_location(f, V, home, saves[i], game_backup_dir, rev)
         IN  IF r.ok THEN BackupSaves(r.fs, V, home, saves, i + 1, game_backup_dir, rev)
             ELSE OpErr(r.err, r.fs, i)

RECURSIVE RestoreSaves(_, _, _, _, _, _, _)
RestoreSaves(f, V, home, saves, i, game_backup_dir, rev) ==
    IF i > Len(saves) THEN OpOk(f)
    ELSE LET r == restore_save_location(f, V, home, saves[i], game_backup_dir, rev)
         IN  IF r.ok THEN RestoreSaves(r.fs, V, home, saves, i + 1, game_backup_dir, rev)
             ELSE OpErr(r.err, r.fs, i)

\* games.iter().find(|g| g.name == game_name): the index, 0 when not found.
FindGame(games, game_name) ==
    IF \E i \in 1..Len(games) : games[i].name = game_name
    THEN CHOOSE i \in 1..Len(games) :
            games[i].name = game_name /\ \A j \in 1..(i - 1) : games[j].name # game_name
    ELSE 0

GameBackupDir(game) == Join(backup_root, PathOf(game.name))

\* As Proceeds, without the `if !game.enabled` return.
ProceedsAlways(game) == TRUE

\* Whether backup_game / restore_game go on for a game that was found.
Proceeds(game) == game.enabled

\* As backup_game, without creating the game's backup directory before the
\* save locations are taken: it appears with the first subdirectory.
BackupGameLazyDir(f, games, V, home, game_name, rev) ==
    LET i == FindGame(games, game_name)
        game == games[i]
    IN  IF i = 0 THEN OpErr("GameNotFound", f, 0)
        ELSE IF ~Proceeds(game) THEN OpOk(f)
        ELSE BackupSaves(f, V, home, game.saves, 1, GameBackupDir(game), rev)

backup_game(f, games, V, home, game_name, rev) ==
    LET i == FindGame(games, game_name)
        game == games[i]
        c == create_dir_all(f, GameBackupDir(game))
    IN  IF i = 0 THEN OpErr("GameNotFound", f, 0)
        ELSE IF ~Proceeds(game) THEN OpOk(f)
        ELSE IF ~c.ok THEN OpErr("FilesystemError", f, 0)
        ELSE BackupSaves(c.fs, V, home, game.saves, 1, GameBackupDir(game), rev)

restore_game(f, games, V, home, game_name, rev) ==
    LET i == FindGame(games, game_name)
        game == games[i]
    IN  IF i = 0 THEN OpErr("GameNotFound", f, 0)
        ELSE IF ~Proceeds(game) THEN OpOk(f)
        ELSE IF ~Exists(f, GameBackupDir(game)) THEN OpErr("NoBackup", f, 0)
        ELSE RestoreSaves(f, V, home, game.saves, 1, GameBackupDir(game), rev)

\* config.games.iter().filter(|game| game.enabled).collect()
IsEnabled(game) == game.enabled
EnabledGames(games) == SelectSeq(games, IsEnabled)

RECURSIVE GameNames(_)
GameNames(gs) == IF gs = <<>> THEN <<>> ELSE <<Head(gs).name>> \o GameNames(Tail(gs))

list_games(games) == GameNames(EnabledGames(games))

has_backup(f, game_name) == Exists(f, Join(backup_root, PathOf(game_name)))

BulkRes(f, attempted, s, e) ==
    [fs |-> f, attempted |-> attempted, success_count |-> s, error_count |-> e]

\* The counters after the call for one game returned r: Ok counts as a
\* success, Err as an error, and the game counts as attempted either way.
BulkCount(acc, name, r) ==
    BulkRes(r.fs, Append(acc.attempted, name),
            acc.success_count + (IF r.ok THEN 1 ELSE 0),
            acc.error_count + (IF r.ok THEN 0 ELSE 1))

\* The call the bulk loop makes for one game.
BulkCall(f, games, V, home, game_name, restore, rev) ==
    IF restore THEN restore_game(f, games, V, home, game_name, rev)
    ELSE backup_game(f, games, V, home, game_name, rev)

\* As BulkLoop, leaving the loop at the first game that fails.
RECURSIVE BulkLoopStops(_, _, _, _, _, _, _)
BulkLoopStops(acc, games, V, home, todo, restore, rev) ==
    IF todo = <<>> \/ acc.error_count > 0 THEN acc
    ELSE BulkLoopStops(BulkCount(acc, Head(todo).name,
                                 BulkCall(acc.fs, games, V, home, Head(todo).name, restore, rev)),
                       games, V, home, Tail(todo), restore, rev)

\* `for game in enabled_games` of backup_all_games (restore = FALSE) and of
\* restore_all_games (restore = TRUE): count and go on.
RECURSIVE BulkLoop(_, _, _, _, _, _, _)
BulkLoop(acc, games, V, home, todo, restore, rev) ==
    IF todo = <<>> THEN acc
    ELSE BulkLoop(BulkCount(acc, Head(todo).name,
                            BulkCall(acc.fs, games, V, home, Head(todo).name, restore, rev)),
                  games, V, home, Tail(todo), restore, rev)

\* What the bulk call returns once the loop has ended.
BulkReturn(acc) == acc.error_count = 0

\* The value a bulk call returns for the counters acc.
BulkOutcome(acc) ==
    [ok |-> BulkReturn(acc), err |-> IF BulkReturn(acc) THEN "none" ELSE "AggregateFailure",
     fs |-> acc.fs, attempted |-> acc.attempted,
     success_count |-> acc.success_count, error_count |-> acc.error_count]

all_games(f, games, V, home, restore, rev) ==
    BulkOutcome(BulkLoop(BulkRes(f, <<>>, 0, 0), games, V, home, EnabledGames(games),
                         restore, rev))

\* ------------------------------------------------------- configurations

Ref(n) == <<"$", "{", n, "}">>

Var(n, v) == [name |-> n, value |-> v]
Save(p, fl) == [path |-> p, files |-> fl]
Game(n, e, sv) == [name |-> n, enabled |-> e, saves |-> sv]

HomeA == Ref("home") \o <<"/", "a">>
HomeM == Ref("home") \o <<"/", "m">>
HomeAFile == Ref("home") \o <<"/", "a", "/", "s1", ".sav">>
AliasA == <<"/", "user_home", "/", "a">>
SavPattern == <<"*", ".sav">>

\* Documents with games: a directory in recursive mode, the same directory
\* in pattern mode, a save location that is a regular file, a game whose
\* second save location is missing, and disabled games.
DocModes ==
    [variables |-> <<Var(Str("saves"), HomeA)>>,
     games |-> <<Game(Str("GA"), TRUE, <<Save(Ref("saves"), <<>>)>>),
                 Game(Str("GP"), TRUE, <<Save(Ref("saves"), <<SavPattern>>)>>),
                 Game(Str("GD"), FALSE, <<Save(Ref("saves"), <<>>)>>)>>]

DocOrder ==
    [variables |-> <<>>,
     games |-> <<Game(Str("GD"), FALSE, <<Save(HomeM, <<>>)>>),
                 Game(Str("GM"), TRUE, <<Save(HomeA, <<>>), Save(HomeM, <<>>), Save(AliasA, <<>>)>>),
                 Game(Str("GF"), TRUE, <<Save(HomeAFile, <<>>)>>)>>]

DocClash ==
    [variables |-> <<>>,
     games |-> <<Game(Str("GC"), TRUE, <<Save(HomeAFile, <<>>), Save(HomeA, <<>>)>>),
                 Game(Str("GN"), TRUE, <<>>)>>]

GameDocs == {DocModes, DocOrder, DocClash}

\* Generated [[var]] sections: names and values drawn from small sets.
VarNames == {Str("v"), Str("w"), Str("home"), Str("config")}
VarValues ==
    {Str("a"),
     <<"{", "v", "}">>,
     Ref("v"),
     Ref("w"),
     Ref("home") \o <<"/", "a">>,
     <<"$">> \o Ref("v"),
     Ref("zz") \o Ref("w")}
VarDefs == {Var(n, v) : n \in VarNames, v \in VarValues}
VarSeqs == UNION {[1..n -> VarDefs] : n \in 0..MaxVars}
VarGames == <<Game(Str("GA"), TRUE, <<Save(HomeA, <<>>)>>), Game(Str("GD"), FALSE, <<>>)>>
VarDocs == {[variables |-> vs, games |-> VarGames] : vs \in VarSeqs}

\* Expansion inputs: a run of "$" in front of a body.
Bodies ==
    {<<"{", "v", "}">>, <<"{", "w", "}">>, <<"{", "home", "}">>, <<"{", "zz", "}">>,
     <<"{", "}">>, <<"{", "v">>, <<"{", "home">>, Str("a")}
ExpandInputs == {Dollars(k) \o b : k \in 0..MaxDollars, b \in Bodies}

\* The host: the home directory /h with the save directory /h/a, and the
\* directory /c of the configuration file.
HomeStr == <<"/", "h">>
DirH == <<Str("h")>>
DirA == <<Str("h"), Str("a")>>
DirM == <<Str("h"), Str("m")>>
FileS1 == Append(DirA, <<"s1", ".sav">>)
FileN == Append(DirA, <<"n", ".txt">>)

Data == {"d1", "d2"}
HostFiles == {FileS1, FileN}
HostDirs == {DirA, DirM}

InitFs ==
    (<<>> :> "dir") @@ (DirH :> "dir") @@ (DirA :> "dir") @@ (ConfigDir :> "dir")
    @@ (FileS1 :> "d1")

\* Generated paths: absolute and relative, of at most MaxPathLen components.
AnonNames == {Str("h"), Str("a"), Str("user_home"), Str("x")}
CompSeqs == UNION {[1..n -> AnonNames] : n \in 0..MaxPathLen}

RECURSIVE JoinSlash(_)
JoinSlash(cs) ==
    IF cs = <<>> THEN <<>>
    ELSE IF Len(cs) = 1 THEN cs[1]
    ELSE cs[1] \o <<"/">> \o JoinSlash(Tail(cs))

MkPath(abs, cs) == (IF abs THEN <<"/">> ELSE <<>>) \o JoinSlash(cs)
AnonPaths == {MkPath(abs, cs) : abs \in BOOLEAN, cs \in CompSeqs}
AnonHomes == {None, Some(<<"/", "h">>), Some(<<"/", "h", "/", "a">>), Some(<<"/", "x">>)}

\* ------------------------------------------------------------- the state

NoRes ==
    [op |-> "none", game |-> <<>>, ok |-> TRUE, err |-> "none", name |-> <<>>,
     out |-> <<>>, passes |-> 0, at |-> 0, attempted |-> <<>>,
     success_count |-> 0, error_count |-> 0]

Res(op, game, r) == [NoRes EXCEPT !.op = op, !.game = game, !.ok = r.ok, !.err = r.err, !.at = r.at]

Init ==
    /\ config \in GameDocs
    /\ home_dir = Some(HomeStr)
    /\ variables = <<>>
    /\ loaded = "none"
    /\ fs = InitFs
    /\ result = NoRes
    /\ changes = 0
    /\ input = <<>>

\* GameBackup::new: the scope is built, or the load fails and there is no
\* GameBackup value.
New ==
    /\ loaded = "none"
    /\ LET r == resolve_variables(config.variables, home_dir)
       IN  /\ loaded' = IF r.ok THEN "ok" ELSE "failed"
           /\ variables' = IF r.ok THEN r.variables ELSE <<>>
           /\ result' = [NoRes EXCEPT !.op = "new", !.ok = r.ok, !.err = r.err,
                                      !.name = r.name, !.at = r.at, !.passes = r.passes]
    /\ UNCHANGED <<config, home_dir, fs, changes, input>>

\* The names a caller may pass: those of the document and one that is not.
CallNames == {config.games[i].name : i \in 1..Len(config.games)} \cup {Str("GX")}

ListGames ==
    /\ loaded = "ok"
    /\ result' = [NoRes EXCEPT !.op = "list_games", !.out = list_games(config.games)]
    /\ UNCHANGED <<config, home_dir, variables, loaded, fs, changes, input>>

HasBackup ==
    /\ loaded = "ok"
    /\ \E n \in CallNames :
          result' = [NoRes EXCEPT !.op = "has_backup", !.game = n, !.ok = has_backup(fs, n)]
    /\ UNCHANGED <<config, home_dir, variables, loaded, fs, changes, input>>

BackupGame ==
    /\ loaded = "ok"
    /\ \E n \in CallNames, rev \in BOOLEAN :
          LET r == backup_game(fs, config.games, variables, home_dir, n, rev)
          IN  /\ fs' = r.fs
              /\ result' = Res("backup_game", n, r)
    /\ UNCHANGED <<config, home_dir, variables, loaded, changes, input>>

RestoreGame ==
    /\ loaded = "ok"
    /\ \E n \in CallNames, rev \in BOOLEAN :
          LET r == restore_game(fs, config.games, variables, home_dir, n, rev)
          IN  /\ fs' = r.fs
              /\ result' = Res("restore_game", n, r)
    /\ UNCHANGED <<config, home_dir, variables, loaded, changes, input>>

BulkResult(op, r) ==
    [NoRes EXCEPT !.op = op, !.ok = r.ok, !.err = r.err, !.attempted = r.attempted,
                  !.success_count = r.success_count, !.error_count = r.error_count]

BackupAllGames ==
    /\ loaded = "ok"
    /\ \E rev \in BOOLEAN :
          \E r \in {all_games(fs, config.games, variables, home_dir, FALSE, rev)} :
              /\ fs' = r.fs
              /\ result' = BulkResult("backup_all_games", r)
    /\ UNCHANGED <<config, home_dir, variables, loaded, changes, input>>

RestoreAllGames ==
    /\ loaded = "ok"
    /\ \E rev \in BOOLEAN :
          \E r \in {all_games(fs, config.games, variables, home_dir, TRUE, rev)} :
              /\ fs' = r.fs
              /\ result' = BulkResult("restore_all_games", r)
    /\ UNCHANGED <<config, home_dir, variables, loaded, changes, input>>

\* The game (another process) writes a save file.
HostWrite ==
    /\ changes < MaxHostChanges
    /\ \E p \in HostFiles, d \in Data :
          /\ IsDir(fs, Parent(p)) /\ ~IsDir(fs, p)
          /\ fs' = [q \in DOMAIN fs \cup {p} |-> IF q = p THEN d ELSE fs[q]]
    /\ result' = [NoRes EXCEPT !.op = "host"]
    /\ changes' = changes + 1
    /\ UNCHANGED <<config, home_dir, variables, loaded, input>>

\* The user removes a save file or a save directory with what it holds.
HostRemove ==
    /\ changes < MaxHostChanges
    /\ \E p \in HostFiles \cup HostDirs :
          /\ Exists(fs, p)
          /\ fs' = [q \in {r \in DOMAIN fs : ~IsPrefix(p, r)} |-> fs[q]]
    /\ result' = [NoRes EXCEPT !.op = "host"]
    /\ changes' = changes + 1
    /\ UNCHANGED <<config, home_dir, variables, loaded, input>>

\* The user creates a save directory.
HostMkdir ==
    /\ changes < MaxHostChanges
    /\ \E p \in HostDirs :
          /\ ~Exists(fs, p) /\ IsDir(fs, Parent(p))
          /\ fs' = [q \in DOMAIN fs \cup {p} |-> IF q = p THEN "dir" ELSE fs[q]]
    /\ result' = [NoRes EXCEPT !.op = "host"]
    /\ changes' = changes + 1
    /\ UNCHANGED <<config, home_dir, variables, loaded, input>>

\* expand_variables applied to a string of the document, as
\* backup_save_location and restore_save_location apply it to a path.
ExpandInput ==
    /\ loaded = "ok"
    /\ LET r == expand_variables(input, variables)
       IN  result' = [NoRes EXCEPT !.op = "expand_variables", !.ok = r.ok, !.err = r.err,
                                  !.name = r.name, !.out = r.out, !.passes = r.passes]
    /\ UNCHANGED <<config, home_dir, variables, loaded, fs, changes, input>>

Next ==
    \/ New
    \/ ListGames
    \/ HasBackup
    \/ BackupGame
    \/ RestoreGame
    \/ BackupAllGames
    \/ RestoreAllGames
    \/ HostWrite
    \/ HostRemove
    \/ HostMkdir

Spec == Init /\ [][Next]_vars

\* The resolver over generated documents: every document of at most MaxVars
\* variables, and every expansion input.
InitVars ==
    /\ config \in VarDocs
    /\ home_dir = Some(HomeStr)
    /\ variables = <<>>
    /\ loaded = "none"
    /\ fs = InitFs
    /\ result = NoRes
    /\ changes = 0
    /\ input = <<>>

NextVars ==
    \/ New
    \/ ListGames
    \/ BackupGame
    \/ RestoreGame

SpecVars == InitVars /\ [][NextVars]_vars

\* expand_variables over generated inputs, against the scope of a document
\* of at most one variable.
InitExpand ==
    /\ config \in {d \in VarDocs : Len(d.variables) <= 1}
    /\ home_dir = Some(HomeStr)
    /\ variables = <<>>
    /\ loaded = "none"
    /\ fs = InitFs
    /\ result = NoRes
    /\ changes = 0
    /\ input \in ExpandInputs

NextExpand ==
    \/ New
    \/ ExpandInput

SpecExpand == InitExpand /\ [][NextExpand]_vars

\* ------------------------------------------------------------------ C4
\* What up to n passes over s make of it, stated apart from the loop of
\* expand_variables: "complete" (no `${` left), "undefined" (a pass met a name
\* that is not in scope) or "pending" (`${` left after n passes).
RECURSIVE AfterPasses(_, _, _, _)
AfterPasses(s, V, done, n) ==
    IF ~ContainsRef(s) THEN [kind |-> "complete", out |-> s, passes |-> done]
    ELSE IF done = n THEN [kind |-> "pending", out |-> s, passes |-> done]
    ELSE LET p == ScanPass(s, 1, <<>>, FALSE, V)
         IN  IF ~p.ok THEN [kind |-> "undefined", out |-> p.name, passes |-> done + 1]
             ELSE AfterPasses(p.out, V, done + 1, n)

\* C4: expand_variables allows 10 passes: an input whose expansion is complete
\* after at most 10 passes (exactly 10 included) returns the expanded string,
\* and it fails with CircularVariableReference exactly when `${` is left after
\* the 10th pass (an 11th pass is needed).
C4_TenPassesAllowed ==
    result.op = "expand_variables" =>
        LET a == AfterPasses(input, variables, 0, MAX_ITERATIONS)
        IN  /\ a.kind = "complete" => result.ok /\ result.out = a.out
            /\ (result.err = "CircularVariableReference") <=> (a.kind = "pending")

\* ------------------------------------------------------------------ C5
IsCycle(vs) ==
    /\ Len(vs) = 2
    /\ vs[1].name # vs[2].name
    /\ {vs[1].name, vs[2].name} \cap {Str("home"), Str("config")} = {}
    /\ vs[1].value = <<"$", "{">> \o vs[2].name \o <<"}">>
    /\ vs[2].value = <<"$", "{">> \o vs[1].name \o <<"}">>

\* C5 as stated: loading a = "${b}", b = "${a}" fails with
\* CircularVariableReference, reached after 10 expansion passes.
C5_CycleIsCircular ==
    (result.op = "new" /\ IsCycle(config.variables)) =>
        ~result.ok /\ result.err = "CircularVariableReference" /\ result.passes = MAX_ITERATIONS

\* C5 amended: loading a = "${b}", b = "${a}" fails with UndefinedVariable of
\* the name b, in the first pass over the value of a (b is not in scope yet);
\* no GameBackup value is produced.
C5_CycleIsUndefined ==
    (result.op = "new" /\ IsCycle(config.variables)) =>
        /\ ~result.ok /\ loaded = "failed"
        /\ result.err = "UndefinedVariable"
        /\ result.name = config.variables[2].name
        /\ result.at = 1 /\ result.passes = 1

C5_Witness ==
    result.op = "new" /\ IsCycle(config.variables) /\ ~result.ok

\* ------------------------------------------------------------------ C6
\* The names of the `${...}` tokens one scan of s meets, in order.
RECURSIVE RawRefs(_, _)
RawRefs(s, i) ==
    IF i >= Len(s) THEN <<>>
    ELSE IF s[i] = "$" /\ s[i + 1] = "{"
         THEN LET j == NameEnd(s, i + 2) IN <<SubSeq(s, i + 2, j - 1)>> \o RawRefs(s, j + 1)
         ELSE RawRefs(s, i + 1)

SeqRange(q) == {q[k] : k \in 1..Len(q)}
SystemNames == DOMAIN add_system_variables(home_dir)
NamesBefore(vs, i) == {vs[k].name : k \in 1..(i - 1)}
NamesAfter(vs, i) == {vs[k].name : k \in (i + 1)..Len(vs)}
InScopeAt(vs, i) == SystemNames \cup NamesBefore(vs, i)

\* The references of value i that are not in scope when it is expanded.
Unresolved(vs, i) == SelectSeq(RawRefs(vs[i].value, 1), LAMBDA n : n \notin InScopeAt(vs, i))

HasReserved(vs) == \E k \in 1..Len(vs) : vs[k].name \in {Str("home"), Str("config")}

\* After a load that succeeded every reference of every value names a system
\* variable or a variable defined earlier in the document, and the scope
\* holds the system variables and the user variables, nothing else.
C6_NoForwardInScope ==
    loaded = "ok" =>
        /\ \A i \in 1..Len(config.variables) : Unresolved(config.variables, i) = <<>>
        /\ DOMAIN variables = SystemNames \cup SeqRange(GameNames(config.variables))

\* A value whose first unresolved reference names a variable defined later
\* makes the load fail: no later than at that value, and when the load gets
\* to that value (no reserved name, no earlier value fails), with
\* UndefinedVariable of that name.
C6_ForwardFails ==
    result.op = "new" =>
        \A i \in 1..Len(config.variables) :
            LET u == Unresolved(config.variables, i)
            IN  (u # <<>> /\ u[1] \in NamesAfter(config.variables, i)) =>
                    /\ ~result.ok /\ loaded = "failed"
                    /\ ~HasReserved(config.variables) =>
                            /\ 1 <= result.at /\ result.at <= i
                            /\ result.at = i =>
                                    result.err = "UndefinedVariable" /\ result.name = u[1]

C7_ReservedRejected ==
    (result.op = "new" /\ HasReserved(config.variables)) =>
        /\ ~result.ok /\ loaded = "failed" /\ variables = <<>>
        /\ result.err = "ReservedVariableName"
        /\ result.name \in {Str("home"), Str("config")}
        /\ result.passes = 0

C7_Witness ==
    /\ result.op = "new" /\ result.err = "ReservedVariableName"
    /\ Len(config.variables) = 2
    /\ config.variables[1].value = Ref("zz") \o Ref("w")
    /\ config.variables[2].name = Str("config")

\* The anonymizer over generated paths and home directories.
InitAnon ==
    /\ config = DocModes
    /\ home_dir \in AnonHomes
    /\ variables = <<>>
    /\ loaded = "none"
    /\ fs = InitFs
    /\ result = NoRes
    /\ changes = 0
    /\ input \in AnonPaths

\* The directory backup_save_location writes into for the expanded path
\* `input`.
BackupSubdir ==
    /\ \E i \in 1..Len(config.games) :
          result' = [NoRes EXCEPT !.op = "backup_subdir", !.game = config.games[i].name,
                        !.out = create_backup_path(PathOf(input),
                                                   GameBackupDir(config.games[i]), home_dir)]
    /\ UNCHANGED <<config, home_dir, variables, loaded, fs, changes, input>>

\* The directory restore_save_location reads from for the expanded path
\* `input`.
RestoreSubdir ==
    /\ \E i \in 1..Len(config.games) :
          result' = [NoRes EXCEPT !.op = "restore_subdir", !.game = config.games[i].name,
                        !.out = create_backup_path(PathOf(input),
                                                   GameBackupDir(config.games[i]), home_dir)]
    /\ UNCHANGED <<config, home_dir, variables, loaded, fs, changes, input>>

NextAnon ==
    \/ BackupSubdir
    \/ RestoreSubdir

SpecAnon == InitAnon /\ [][NextAnon]_vars

\* ------------------------------------------------- what the claims observe

\* The game of the document called n (names are unique in the documents).
TheGame(n) == CHOOSE g \in SeqRange(config.games) : g.name = n
Known(n) == \E g \in SeqRange(config.games) : g.name = n

\* A save location's expanded path on the host, and its directory in the
\* backup of game g.
HostPath(sl) == AbsOf(PathOf(expand_variables(sl.path, variables).out))
Subdir(g, sl) ==
    create_backup_path(PathOf(expand_variables(sl.path, variables).out),
                       GameBackupDir(g), home_dir)

\* What f holds at and below p, by the path relative to p.
Under(f, p) ==
    [rel \in {SubSeq(q, Len(p) + 1, Len(q)) : q \in {r \in DOMAIN f : IsPrefix(p, r)}}
        |-> f[p \o rel]]

\* The enabled games' names in document order.
RECURSIVE EnabledFrom(_)
EnabledFrom(i) ==
    IF i > Len(config.games) THEN <<>>
    ELSE (IF config.games[i].enabled THEN <<config.games[i].name>> ELSE <<>>)
         \o EnabledFrom(i + 1)

IsBulk == result.op \in {"backup_all_games", "restore_all_games"}

\* ------------------------------------------------------------------ C1
\* C1: round trip.  When backup_game(g) of an enabled game has succeeded and
\* restore_game(g) is the next operation, the restore succeeds and leaves at
\* every save location's expanded path the files, with their contents, that
\* were there when the backup ran; a save location may be a directory in
\* recursive mode, a regular file, or a directory in pattern mode.
C1_RoundTrip ==
    [][(/\ result.op = "backup_game" /\ result.ok
        /\ Known(result.game) /\ TheGame(result.game).enabled
        /\ result'.op = "restore_game" /\ result'.game = result.game)
       => /\ result'.ok
          /\ \A sl \in SeqRange(TheGame(result.game).saves) :
                Under(fs', HostPath(sl)) = Under(fs, HostPath(sl))]_vars

\* ------------------------------------------------------------------ C2
\* C2: backup_all_games and restore_all_games attempt every enabled game
\* once, in document order, also after a game has failed: at the end
\* success_count + error_count is the number of enabled games, the call
\* fails exactly when error_count > 0, and after backup_all_games every
\* enabled game has its backup directory, those after a failing game too.
C2_BulkAttemptsAll ==
    IsBulk =>
        /\ result.attempted = EnabledFrom(1)
        /\ result.success_count + result.error_count = Len(EnabledFrom(1))
        /\ result.ok <=> result.error_count = 0
        /\ result.op = "backup_all_games" =>
                \A n \in SeqRange(EnabledFrom(1)) : Exists(fs, GameBackupDir(TheGame(n)))

C2_Witness ==
    /\ result.op = "backup_all_games" /\ ~result.ok
    /\ result.attempted = <<Str("GM"), Str("GF")>>
    /\ result.error_count = 1 /\ result.success_count = 1
    /\ IsFile(fs, GameBackupDir(TheGame(Str("GF")))
                   \o <<Str("user_home"), Str("a"), <<"s1", ".sav">>, <<"s1", ".sav">>>>)

\* ------------------------------------------------------------------ C3
C3_NotListed ==
    /\ result.op = "list_games" =>
            \A n \in SeqRange(result.out) : Known(n) /\ TheGame(n).enabled
    /\ IsBulk => \A n \in SeqRange(result.attempted) : Known(n) /\ TheGame(n).enabled

CutGames(n, k) ==
    [i \in 1..Len(config.games) |->
        IF config.games[i].name = n
        THEN [config.games[i] EXCEPT !.saves = SubSeq(config.games[i].saves, 1, k)]
        ELSE config.games[i]]

\* What save location sl of g held on the host in f is in the backup in f2.
InBackup(f, f2, g, sl) ==
    IF IsFile(f, HostPath(sl))
    THEN LET to == Append(Subdir(g, sl), Last(HostPath(sl)))
         IN  Exists(f2, to) /\ f2[to] = f[HostPath(sl)]
    ELSE \A rel \in DOMAIN Under(f, HostPath(sl)) :
            LET to == Subdir(g, sl) \o rel
            IN  Exists(f2, to) /\ f2[to] = f[HostPath(sl) \o rel]

\* C8: backup_game of an enabled game takes the save locations in document
\* order and stops at the first that fails: every location before it existed
\* and what it held is in the backup tree (no rollback); the error is
\* SourceMissing exactly when the failing location's path does not exist and
\* a copy error otherwise; the file system is what the same call leaves for
\* the game without the locations after the failing one (they are neither
\* read nor copied).
C8_StopsAtFirstFailure ==
    [][(/\ result'.op = "backup_game" /\ ~result'.ok
        /\ Known(result'.game) /\ TheGame(result'.game).enabled)
       => LET g == TheGame(result'.game)
              k == result'.at
          IN  /\ k \in 1..Len(g.saves)
              /\ Exists(fs', GameBackupDir(g))
              /\ \A i \in 1..(k - 1) :
                    /\ Exists(fs, HostPath(g.saves[i]))
                    /\ g.saves[i].files = <<>> => InBackup(fs, fs', g, g.saves[i])
              /\ result'.err \in {"SourceMissing", "FilesystemError"}
              /\ (result'.err = "SourceMissing") <=> ~Exists(fs, HostPath(g.saves[k]))
              /\ \E rev \in BOOLEAN :
                    fs' = backup_game(fs, CutGames(g.name, k), variables, home_dir,
                                      g.name, rev).fs]_vars

C8_Witness ==
    /\ result.op = "backup_game" /\ result.game = Str("GM")
    /\ ~result.ok /\ result.err = "SourceMissing" /\ result.at = 2
    /\ Len(TheGame(Str("GM")).saves) = 3
    /\ IsFile(fs, GameBackupDir(TheGame(Str("GM")))
                   \o <<Str("user_home"), Str("a"), <<"s1", ".sav">>>>)
    /\ ~Exists(fs, GameBackupDir(TheGame(Str("GM"))) \o <<Str("user_home"), Str("m")>>)

\* ------------------------------------------------------------------ C9
\* The save locations of g whose directory is not in the backup.
NotBackedUp(f, g) == {i \in 1..Len(g.saves) : ~Exists(f, Subdir(g, g.saves[i]))}
Least(S) == CHOOSE i \in S : \A j \in S : i <= j

\* C9: restore_game of an enabled game fails with NoBackup when the game's
\* backup directory does not exist, changing nothing; and it fails at the
\* first save location whose anonymized subdirectory is not in the backup
\* (unless an earlier location failed), leaving the file system as the
\* restore of the locations before it left it: nothing is created or written
\* at the failing location's destination and the later ones are not
\* restored.
C9_RestoreFailsEarly ==
    [][(/\ result'.op = "restore_game"
        /\ Known(result'.game) /\ TheGame(result'.game).enabled)
       => LET g == TheGame(result'.game)
              none == NotBackedUp(fs, g)
          IN  /\ ~Exists(fs, GameBackupDir(g)) =>
                    ~result'.ok /\ result'.err = "NoBackup" /\ fs' = fs
              /\ result'.err = "NoBackup" => ~Exists(fs, GameBackupDir(g))
              /\ result'.err = "BackupSubdirMissing" => result'.at = Least(none)
              /\ (Exists(fs, GameBackupDir(g)) /\ none # {}) =>
                    /\ ~result'.ok
                    /\ result'.at \in 1..Least(none)
                    /\ result'.at = Least(none) =>
                          /\ result'.err = "BackupSubdirMissing"
                          /\ Under(fs', HostPath(g.saves[Least(none)]))
                                = Under(fs, HostPath(g.saves[Least(none)]))
                          /\ \E rev \in BOOLEAN :
                                fs' = restore_game(fs, CutGames(g.name, Least(none) - 1),
                                                   variables, home_dir, g.name, rev).fs]_vars

C9_Witness ==
    /\ result.op = "restore_game" /\ result.game = Str("GM")
    /\ ~result.ok /\ result.err = "BackupSubdirMissing" /\ result.at = 2
    /\ ~Exists(fs, DirM)
    /\ Exists(fs, Subdir(TheGame(Str("GM")), TheGame(Str("GM")).saves[3]))
    /\ ~Exists(fs, HostPath(TheGame(Str("GM")).saves[3]))

\* ----------------------------------------------------------------- C10
\* The POSIX mapping for the path of components cs (absolute or not), stated
\* on components: below the home directory of components hs the sentinel
\* user_home replaces hs, otherwise the components stay.
Mapped(abs, cs) ==
    LET under == {hs \in CompSeqs :
                    home_dir.some /\ abs /\ home_dir.path = MkPath(TRUE, hs) /\ IsPrefix(hs, cs)}
    IN  IF under # {}
        THEN LET hs == CHOOSE hs \in under : TRUE
             IN  <<Str("user_home")>> \o SubSeq(cs, Len(hs) + 1, Len(cs))
        ELSE cs

Without(f, p) == [q \in {r \in DOMAIN f : ~IsPrefix(p, r)} |-> f[q]]

\* What a backup of save location sl of g, taken of the host as it is in f
\* into an empty subdirectory, leaves in that subdirectory.
FreshBackup(f, g, sl, rev) ==
    Under(backup_save_location(Without(f, Subdir(g, sl)), variables, home_dir, sl,
                               GameBackupDir(g), rev).fs,
          Subdir(g, sl))

\* C11: after a successful backup_game of an enabled game, whatever backups
\* and source changes came before, the anonymized backup subdirectory of
\* each of its save locations holds exactly the files this backup copied
\* from that location: what a backup of the location into an empty
\* subdirectory leaves, with nothing left over from an earlier backup or
\* from another save location.
C11_ExactlyLastBackup ==
    [][(/\ result'.op = "backup_game" /\ result'.ok
        /\ Known(result'.game) /\ TheGame(result'.game).enabled)
       => LET g == TheGame(result'.game)
          IN  \A sl \in SeqRange(g.saves) :
                \E rev \in BOOLEAN :
                    Under(fs', Subdir(g, sl)) = FreshBackup(fs, g, sl, rev)]_vars

\* ----------------------------------------------------------------- C12
\* The positions of s where an unterminated `${` starts: no "}" follows
\* before the end of the string.
Unterminated(s) ==
    {i \in 1..(Len(s) - 1) : s[i] = "$" /\ s[i + 1] = "{" /\ NameEnd(s, i + 2) = Len(s) + 1}

\* C12: an input of expand_variables that contains an unterminated `${`
\* fails with UndefinedVariable, and the name of the error is the text from
\* after that `${` to the end of the string, whether or not that text is a
\* name in scope.
C12_UnterminatedFails ==
    (result.op = "expand_variables" /\ Unterminated(input) # {}) =>
        /\ ~result.ok
        /\ result.err = "UndefinedVariable"
        /\ result.name = SubSeq(input, Least(Unterminated(input)) + 2, Len(input))

\* ----------------------------------------------------------------- C13
\* The absolute paths (of normal components) other than p.
OtherAbsolute(p) == {q \in AnonPaths : PathOf(q).abs /\ PathOf(q) # PathOf(p)}

\* C13: the anonymization is collision-free: the backup subdirectory of a
\* game for an absolute path (of normal components) is the backup
\* subdirectory of that game for no other absolute path, whether the paths
\* lie under the home directory or outside it.
C13_CollisionFree ==
    (result.op \in {"backup_subdir", "restore_subdir"} /\ PathOf(input).abs) =>
        \A q \in OtherAbsolute(input) :
            create_backup_path(PathOf(q), backup_root \o <<result.game>>, home_dir)
                # result.out

\* ----------------------------------------------------------------- C14
\* The enabled games of the document, by name.
EnabledNames == {n \in CallNames : Known(n) /\ TheGame(n).enabled}

\* C14: backup_game of an enabled, known game creates <backup-root>/<game>
\* before it examines a save location: after every backup_game attempt on
\* such a game, one that fails with SourceMissing on its first save location
\* included, has_backup(game) is true, and it stays true under every later
\* operation; has_backup of an enabled game turns from false to true only in
\* a backup attempt of that game (backup_game of it, or backup_all_games);
\* and the has_backup call returns whether that directory exists.
C14_HasBackupAfterAttempt ==
    /\ [][(result'.op = "backup_game" /\ result'.game \in EnabledNames)
              => has_backup(fs', result'.game)]_vars
    /\ [][result'.op = "backup_all_games"
              => \A n \in EnabledNames : has_backup(fs', n)]_vars
    /\ [][\A n \in EnabledNames :
              /\ has_backup(fs, n) => has_backup(fs', n)
              /\ (~has_backup(fs, n) /\ has_backup(fs', n)) =>
                    \/ result'.op = "backup_game" /\ result'.game = n
                    \/ result'.op = "backup_all_games"]_vars
    /\ [](result.op = "has_backup" =>
              (result.ok <=> Exists(fs, backup_root \o <<result.game>>)))

C14_Witness ==
    /\ result.op = "backup_game" /\ result.game = Str("GM")
    /\ Str("GM") \in EnabledNames
    /\ ~result.ok /\ result.err = "SourceMissing" /\ result.at = 1
    /\ has_backup(fs, Str("GM"))
    /\ DOMAIN Under(fs, GameBackupDir(TheGame(Str("GM")))) = {<<>>}

====
